---- MODULE Spec2Model ----
(***************************************************************************)
(* Model of img.py, the batch image resizer and converter.                 *)
(*                                                                         *)
(* Strings are sequences of one-character strings, so that the string      *)
(* operations of the program (strip, lower, the suffix and stem of a file  *)
(* name, the formatting of the counter, the joining of a path) are         *)
(* computed character by character.  A filesystem path is the sequence of  *)
(* its components.  The filesystem maps each existing path to its entry:   *)
(* a directory (with its children in enumeration order) or a regular file  *)
(* (with the image it holds, or undecodable data).                         *)
(***************************************************************************)
EXTENDS Integers, Sequences, FiniteSets, TLC

VARIABLES
    fs,             \* the filesystem: path -> entry
    max_width,      \* args.width
    mode_type,      \* args.type
    pc,             \* position of the program
    line,           \* the line read at the prompt (interactive mode)
    path_strings,   \* the argument of process_images
    idx,            \* position of the collection loop in path_strings
    target_files,   \* the collected image paths
    ignored,        \* the paths named in "ignored" diagnostics, in order
    pos,            \* position of the conversion loop in target_files
    success_count,  \* the success counter of the conversion loop
    summary,        \* the printed summary <<success_count, len(target_files)>>
    report,         \* what the program printed last
    inputs,         \* args.inputs
    batches,        \* number of lines read / batches run so far
    faults,         \* number of injected write failures so far
    prev_fs,        \* the filesystem before the last file was attempted
    last,           \* outcome of the last file attempted
    attempted,      \* the files attempted in this batch, in order
    written,        \* number of completed writes in this batch
    outputs,        \* the paths written in this batch, in order
    probe           \* argument/result record of the function specifications

vars == <<fs, max_width, mode_type, pc, line, path_strings, idx, target_files,
          ignored, pos, success_count, summary, report, inputs, batches, faults,
          prev_fs, last, attempted, written, outputs, probe>>

----------------------------------------------------------------------------
(* Bounds of the model *)

MaxBatches == 2
MaxInputs == 2
MaxFaults == 1
MaxLineLen == 3
MaxDim == 24
MaxTaken == 10

----------------------------------------------------------------------------
(* Strings *)

Upper == [c \in {"a", "b", "e", "g", "i", "j", "m", "n", "p", "q", "t", "u", "x"} |->
            CASE c = "a" -> "A" [] c = "b" -> "B" [] c = "e" -> "E" [] c = "g" -> "G"
              [] c = "i" -> "I" [] c = "j" -> "J" [] c = "m" -> "M" [] c = "n" -> "N"
              [] c = "p" -> "P" [] c = "q" -> "Q" [] c = "t" -> "T" [] c = "u" -> "U"
              [] c = "x" -> "X"]

\* str.lower(), one character
LowerChar(c) ==
    IF \E l \in DOMAIN Upper : Upper[l] = c
    THEN CHOOSE l \in DOMAIN Upper : Upper[l] = c
    ELSE c

\* str.lower()
Lower(s) == [k \in 1..Len(s) |-> LowerChar(s[k])]

\* str.strip(chars): drop the leading and the trailing characters in chars
RECURSIVE LStrip(_, _)
LStrip(s, chars) ==
    IF s # <<>> /\ Head(s) \in chars THEN LStrip(Tail(s), chars) ELSE s

RECURSIVE RStrip(_, _)
RStrip(s, chars) ==
    IF s # <<>> /\ s[Len(s)] \in chars
    THEN RStrip(SubSeq(s, 1, Len(s) - 1), chars)
    ELSE s

Strip(s, chars) == RStrip(LStrip(s, chars), chars)

\* str.rfind("."), 1-based, 0 when there is none
RFindDot(s) ==
    IF \E k \in 1..Len(s) : s[k] = "."
    THEN CHOOSE k \in 1..Len(s) : s[k] = "." /\ \A m \in (k+1)..Len(s) : s[m] # "."
    ELSE 0

\* PurePath.suffix: from the last dot, unless the dot is first or last
Suffix(name) ==
    LET d == RFindDot(name)
    IN  IF 1 < d /\ d < Len(name) THEN SubSeq(name, d, Len(name)) ELSE <<>>

\* PurePath.stem
Stem(name) ==
    LET d == RFindDot(name)
    IN  IF 1 < d /\ d < Len(name) THEN SubSeq(name, 1, d - 1) ELSE name

DigitChar(d) == CASE d = 0 -> "0" [] d = 1 -> "1" [] d = 2 -> "2" [] d = 3 -> "3"
                  [] d = 4 -> "4" [] d = 5 -> "5" [] d = 6 -> "6" [] d = 7 -> "7"
                  [] d = 8 -> "8" [] d = 9 -> "9"

Digits == {"0", "1", "2", "3", "4", "5", "6", "7", "8", "9"}

\* f"{counter}": the decimal digits of a natural number
RECURSIVE FormatInt(_)
FormatInt(n) ==
    IF n < 10 THEN <<DigitChar(n)>>
    ELSE FormatInt(n \div 10) \o <<DigitChar(n % 10)>>

\* str.isdigit()
IsDigit(s) == s # <<>> /\ \A k \in 1..Len(s) : s[k] \in Digits

----------------------------------------------------------------------------
(* Paths and the filesystem *)

\* Path(string): the components between the separators
RECURSIVE SplitPath(_, _)
SplitPath(s, cur) ==
    IF s = <<>> THEN (IF cur = <<>> THEN <<>> ELSE <<cur>>)
    ELSE IF Head(s) = "/"
         THEN (IF cur = <<>> THEN <<>> ELSE <<cur>>) \o SplitPath(Tail(s), <<>>)
         ELSE SplitPath(Tail(s), Append(cur, Head(s)))

ToPath(s) == SplitPath(s, <<>>)

\* directory / filename
Join(directory, filename) == Append(directory, filename)

\* Path.parent and Path.name
Parent(p) == SubSeq(p, 1, Len(p) - 1)
Name(p) == p[Len(p)]

DirEntry(children) == [kind |-> "dir", list |-> children, ok |-> FALSE,
                       w |-> 0, h |-> 0, fmt |-> "none"]
FileEntry(ok, w, h, fmt) == [kind |-> "file", list |-> <<>>, ok |-> ok,
                             w |-> w, h |-> h, fmt |-> fmt]

\* Path.exists(), Path.is_dir(), Path.is_file()
Exists(f, p) == p \in DOMAIN f
IsDir(f, p) == p \in DOMAIN f /\ f[p].kind = "dir"
IsFile(f, p) == p \in DOMAIN f /\ f[p].kind = "file"

\* a new entry at path p, listed last in its parent directory
AddEntry(f, p, e) ==
    LET par == Parent(p)
        g == [q \in DOMAIN f |->
                IF q = par THEN [f[q] EXCEPT !.list = Append(@, Name(p))] ELSE f[q]]
    IN  (p :> e) @@ g

\* Path.iterdir(): the children of a directory, in enumeration order
IterDir(f, p) == [k \in 1..Len(f[p].list) |-> Join(p, f[p].list[k])]

----------------------------------------------------------------------------
(* get_unique_filepath *)

ProbeCounterUnchecked(f, directory, stem, suffix, counter) ==
    Join(directory, stem \o <<"_">> \o FormatInt(counter) \o suffix)
RECURSIVE ProbeCounter(_, _, _, _, _)
ProbeCounter(f, directory, stem, suffix, counter) ==
    LET new_filename == stem \o <<"_">> \o FormatInt(counter) \o suffix
        new_path == Join(directory, new_filename)
    IN  IF ~Exists(f, new_path) THEN new_path
        ELSE ProbeCounter(f, directory, stem, suffix, counter + 1)

get_unique_filepath_overwrite(f, directory, filename) == Join(directory, filename)
get_unique_filepath(f, directory, filename) ==
    LET file_path == Join(directory, filename)
    IN  IF ~Exists(f, file_path) THEN file_path
        ELSE ProbeCounter(f, directory, Stem(Name(file_path)),
                          Suffix(Name(file_path)), 1)

----------------------------------------------------------------------------
(* Floating point: the arithmetic of line 92                               *)
(*                                                                         *)
(* A positive double is [bits, exp]: 53 significand bits, most significant *)
(* first (the first is 1), the first bit weighing 2^exp.  Division and     *)
(* multiplication round to nearest, ties to even, as IEEE 754 binary64     *)
(* does; the significand is kept as a bit sequence, since 53 bits exceed    *)
(* the 32-bit integers available here.                                     *)

MantissaBits == 53

RECURSIVE Pow2(_)
Pow2(n) == IF n = 0 THEN 1 ELSE 2 * Pow2(n - 1)

\* the binary digits of a positive integer, most significant first
RECURSIVE BinDigits(_)
BinDigits(n) == IF n < 2 THEN <<n>> ELSE Append(BinDigits(n \div 2), n % 2)

\* the integer a sequence of bits denotes (halving, to keep the nesting shallow)
RECURSIVE BitsValue(_)
BitsValue(b) ==
    IF b = <<>> THEN 0
    ELSE IF Len(b) = 1 THEN b[1]
    ELSE LET half == Len(b) \div 2
         IN  BitsValue(SubSeq(b, 1, half)) * Pow2(Len(b) - half)
             + BitsValue(SubSeq(b, half + 1, Len(b)))

\* b + 1 on a bit sequence of fixed length; all ones wrap to all zeros
Increment(b) ==
    IF \E k \in 1..Len(b) : b[k] = 0
    THEN LET z == CHOOSE k \in 1..Len(b) : b[k] = 0 /\ \A m \in (k+1)..Len(b) : b[m] = 1
         IN  [k \in 1..Len(b) |-> IF k < z THEN b[k] ELSE IF k = z THEN 1 ELSE 0]
    ELSE [k \in 1..Len(b) |-> 0]

\* round a bit sequence (first bit 1, weighing 2^exp) to MantissaBits bits,
\* to nearest, ties to even; sticky tells that nonzero bits follow the sequence
RoundNearestEven(b, exp, sticky) ==
    IF Len(b) <= MantissaBits
    THEN [bits |-> b \o [k \in 1..(MantissaBits - Len(b)) |-> 0], exp |-> exp]
    ELSE LET m == SubSeq(b, 1, MantissaBits)
             guard == b[MantissaBits + 1]
             rest == sticky \/ \E k \in (MantissaBits + 2)..Len(b) : b[k] = 1
             up == guard = 1 /\ (rest \/ m[MantissaBits] = 1)
             inc == Increment(m)
         IN  IF ~up THEN [bits |-> m, exp |-> exp]
             ELSE IF inc[1] = 1 THEN [bits |-> inc, exp |-> exp]
             ELSE [bits |-> <<1>> \o SubSeq(inc, 2, MantissaBits), exp |-> exp + 1]

\* the next n quotient bits of r / b (0 <= r < b), and the remainder left
RECURSIVE QuotientBits(_, _, _)
QuotientBits(r, b, n) ==
    IF n = 0 THEN [bits |-> <<>>, rem |-> r]
    ELSE IF n = 1
    THEN LET bit == IF 2 * r >= b THEN 1 ELSE 0
         IN  [bits |-> <<bit>>, rem |-> 2 * r - bit * b]
    ELSE LET first == QuotientBits(r, b, n \div 2)
             second == QuotientBits(first.rem, b, n - n \div 2)
         IN  [bits |-> first.bits \o second.bits, rem |-> second.rem]

\* the least s with a * 2^s >= b
RECURSIVE ShiftUp(_, _)
ShiftUp(a, b) == IF a >= b THEN 0 ELSE 1 + ShiftUp(2 * a, b)

\* the greatest t with b * 2^t <= a (for a >= b)
RECURSIVE ShiftDown(_, _)
ShiftDown(a, b) == IF 2 * b > a THEN 0 ELSE 1 + ShiftDown(a, 2 * b)

\* a / b for positive integers a and b: int.__truediv__
TrueDiv(a, b) ==
    LET s == ShiftUp(a, b)
        t == ShiftDown(a * Pow2(s), b)
        aa == a * Pow2(s)
        bb == b * Pow2(t)
        q == QuotientBits(aa - bb, bb, MantissaBits)
    IN  RoundNearestEven(<<1>> \o q.bits, t - s, q.rem # 0)

Reverse(s) == [k \in 1..Len(s) |-> s[Len(s) + 1 - k]]

\* the bits of m * n + carry, least significant first, m given least significant
\* first: as many bits as m has, and the carry out
RECURSIVE MulBitsLsb(_, _, _)
MulBitsLsb(m, n, carry) ==
    IF m = <<>> THEN [bits |-> <<>>, carry |-> carry]
    ELSE IF Len(m) = 1
    THEN LET t == m[1] * n + carry
         IN  [bits |-> <<t % 2>>, carry |-> t \div 2]
    ELSE LET half == Len(m) \div 2
             low == MulBitsLsb(SubSeq(m, 1, half), n, carry)
             high == MulBitsLsb(SubSeq(m, half + 1, Len(m)), n, low.carry)
         IN  [bits |-> low.bits \o high.bits, carry |-> high.carry]

\* x * n for a double x and a positive integer n: float.__mul__
FloatMul(x, n) ==
    LET mul == MulBitsLsb(Reverse(x.bits), n, 0)
        prod == (IF mul.carry = 0 THEN <<>> ELSE BinDigits(mul.carry))
                \o Reverse(mul.bits)
    IN  RoundNearestEven(prod, x.exp + (Len(prod) - MantissaBits), FALSE)

\* int(x) for a positive double x: truncation
FloatToInt(x) ==
    IF x.exp < 0 THEN 0 ELSE BitsValue(SubSeq(x.bits, 1, x.exp + 1))

\* line 92: int((max_width / width) * height)
NewHeight(mw, width, height) == FloatToInt(FloatMul(TrueDiv(mw, width), height))

----------------------------------------------------------------------------
(* process_images: the settings *)

IMAGE_EXTENSIONS ==
    { <<".", "j", "p", "g">>, <<".", "j", "p", "e", "g">>, <<".", "p", "n", "g">>,
      <<".", "w", "e", "b", "p">>, <<".", "b", "m", "p">>, <<".", "t", "i", "f", "f">> }

save_format(mode) == IF mode \in {"webp", "w"} THEN "WebP" ELSE "JPEG"

save_extension(mode) ==
    IF mode \in {"webp", "w"} THEN <<".", "w", "e", "b", "p">> ELSE <<".", "j", "p", "g">>

output_folder_name_shared(mode) == <<"o", "u", "t">>
output_folder_name(mode) ==
    IF mode \in {"webp", "w"} THEN <<"w", "e", "b", "p">> ELSE <<"j", "p", "g">>

----------------------------------------------------------------------------
(* process_images: the collection of one input string *)

\* p_str.strip('"').strip("'")
CleanPath(p_str) == Strip(Strip(p_str, {"\""}), {"'"})

\* child.suffix.lower() in IMAGE_EXTENSIONS
Supported(p) == Lower(Suffix(Name(p))) \in IMAGE_EXTENSIONS

\* the paths among ps that are regular files with a supported extension
RECURSIVE SelectPaths(_, _)
SelectPaths(f, ps) ==
    IF ps = <<>> THEN <<>>
    ELSE (IF IsFile(f, Head(ps)) /\ Supported(Head(ps)) THEN <<Head(ps)>> ELSE <<>>)
         \o SelectPaths(f, Tail(ps))

\* rglob in place of iterdir: the files below a directory, at any depth
RECURSIVE WalkDir(_, _)
WalkDir(f, p) ==
    LET kids == [k \in 1..Len(f[p].list) |-> Join(p, f[p].list[k])]
        Sub[k \in 0..Len(kids)] ==
            IF k = 0 THEN <<>>
            ELSE Sub[k - 1] \o <<kids[k]>> \o
                 (IF IsDir(f, kids[k]) THEN WalkDir(f, kids[k]) ELSE <<>>)
    IN  Sub[Len(kids)]

\* lines 61-65: the children of a directory that are collected
DirChildrenRecursive(f, p) == SelectPaths(f, WalkDir(f, p))
DirChildren(f, p) == SelectPaths(f, IterDir(f, p))

\* lines 56-70: what one input string adds to target_files, and whether it is
\* reported as ignored
CollectOne(f, p_str) ==
    LET clean_path == CleanPath(p_str)
        path_obj == ToPath(clean_path)
    IN  IF clean_path = <<>> THEN [files |-> <<>>, diag |-> <<>>]
        ELSE IF IsDir(f, path_obj)
             THEN [files |-> DirChildren(f, path_obj), diag |-> <<>>]
        ELSE IF IsFile(f, path_obj)
             THEN [files |-> IF Supported(path_obj) THEN <<path_obj>> ELSE <<>>,
                   diag |-> <<>>]
        ELSE [files |-> <<>>, diag |-> <<clean_path>>]

----------------------------------------------------------------------------
(* process_images: the conversion of one file *)

\* the classes caught by "except Exception"
ExceptionClasses == {"FileExistsError", "FileNotFoundError", "UnidentifiedImageError",
                     "ValueError", "OSError"}
CaughtOnlyOSError(exc) ==
    exc \in {"FileExistsError", "FileNotFoundError", "UnidentifiedImageError", "OSError"}
Caught(exc) == exc \in ExceptionClasses

\* output_dir.mkdir(exist_ok=True): [fs, exc]
MkdirClobber(f, output_dir) ==
    IF IsDir(f, output_dir) THEN [fs |-> f, exc |-> "none"]
    ELSE IF Exists(f, output_dir)
         THEN [fs |-> [f EXCEPT ![output_dir] = DirEntry(<<>>)], exc |-> "none"]
    ELSE [fs |-> AddEntry(f, output_dir, DirEntry(<<>>)), exc |-> "none"]
Mkdir(f, output_dir) ==
    IF IsDir(f, output_dir) THEN [fs |-> f, exc |-> "none"]
    ELSE IF Exists(f, output_dir) THEN [fs |-> f, exc |-> "FileExistsError"]
    ELSE IF ~IsDir(f, Parent(output_dir)) THEN [fs |-> f, exc |-> "FileNotFoundError"]
    ELSE [fs |-> AddEntry(f, output_dir, DirEntry(<<>>)), exc |-> "none"]

\* lines 90-93: the size the image is resized to (its own size when not resized)
TargetSize(width, height, mw) ==
    IF width > mw THEN <<mw, NewHeight(mw, width, height)>> ELSE <<width, height>>

\* Image.resize rejects a size with a side below 1
ResizeRaises(size) == size[1] < 1 \/ size[2] < 1

\* img.save: the file written at output_path
WriteEntry(f, output_path, e) ==
    IF Exists(f, output_path) THEN [f EXCEPT ![output_path] = e]
    ELSE AddEntry(f, output_path, e)

\* outcomes of the write of img.save: completed, failed leaving nothing, failed
\* leaving a partly written file
WriteOutcomes == {"ok", "fail_clean", "fail_partial"}

NoOutput == <<>>

Outcome(f, exc, stage, out, size) ==
    [fs |-> f, exc |-> exc, stage |-> stage, out |-> out, size |-> size]

\* lines 83-110: the body of the try statement for one file
ConvertFile(f, image_path, mw, mode, wr) ==
    LET output_dir == Join(Parent(image_path), output_folder_name(mode))
        made == Mkdir(f, output_dir)
        f1 == made.fs
        img == f1[image_path]
        size == TargetSize(img.w, img.h, mw)
        output_path == get_unique_filepath(f1, output_dir,
                                           Stem(Name(image_path)) \o save_extension(mode))
    IN  IF made.exc # "none"
        THEN Outcome(f, made.exc, "mkdir", NoOutput, <<0, 0>>)
        ELSE IF ~IsFile(f1, image_path)
        THEN Outcome(f1, "FileNotFoundError", "decode", NoOutput, <<0, 0>>)
        ELSE IF ~img.ok
        THEN Outcome(f1, "UnidentifiedImageError", "decode", NoOutput, <<0, 0>>)
        ELSE IF img.w > mw /\ ResizeRaises(size)
        THEN Outcome(f1, "ValueError", "resize", NoOutput, size)
        ELSE IF wr = "ok"
        THEN Outcome(WriteEntry(f1, output_path,
                                FileEntry(TRUE, size[1], size[2], save_format(mode))),
                     "none", "done", output_path, size)
        ELSE IF wr = "fail_partial"
        THEN Outcome(WriteEntry(f1, output_path,
                                FileEntry(FALSE, 0, 0, "partial")),
                     "OSError", "save", output_path, size)
        ELSE Outcome(f1, "OSError", "save", output_path, size)

----------------------------------------------------------------------------
(* main: the interactive loop *)

\* shlex.split (POSIX rules): [ok, tokens]; ok is FALSE where it raises ValueError
RECURSIVE ShlexScan(_, _, _, _)
ShlexScan(s, state, cur, acc) ==
    IF s = <<>>
    THEN (IF state = "out" THEN [ok |-> TRUE, tokens |-> acc]
          ELSE IF state = "word" THEN [ok |-> TRUE, tokens |-> Append(acc, cur)]
          ELSE [ok |-> FALSE, tokens |-> <<>>])
    ELSE LET c == Head(s)
             r == Tail(s)
         IN  CASE state \in {"out", "word"} ->
                  (IF c = " " THEN (IF state = "word"
                                    THEN ShlexScan(r, "out", <<>>, Append(acc, cur))
                                    ELSE ShlexScan(r, "out", <<>>, acc))
                   ELSE IF c = "'" THEN ShlexScan(r, "sq", cur, acc)
                   ELSE IF c = "\"" THEN ShlexScan(r, "dq", cur, acc)
                   ELSE IF c = "\\" THEN ShlexScan(r, "esc", cur, acc)
                   ELSE ShlexScan(r, "word", Append(cur, c), acc))
               [] state = "sq" ->
                  (IF c = "'" THEN ShlexScan(r, "word", cur, acc)
                   ELSE ShlexScan(r, "sq", Append(cur, c), acc))
               [] state = "dq" ->
                  (IF c = "\"" THEN ShlexScan(r, "word", cur, acc)
                   ELSE IF c = "\\" THEN ShlexScan(r, "dqesc", cur, acc)
                   ELSE ShlexScan(r, "dq", Append(cur, c), acc))
               [] state = "esc" -> ShlexScan(r, "word", Append(cur, c), acc)
               [] state = "dqesc" ->
                  (IF c \in {"\"", "\\"} THEN ShlexScan(r, "dq", Append(cur, c), acc)
                   ELSE ShlexScan(r, "dq", cur \o <<"\\", c>>, acc))

ShlexSplit(s) == ShlexScan(s, "out", <<>>, <<>>)

QuitWords == { <<"q">>, <<"q", "u", "i", "t">>, <<"e", "x", "i", "t">> }

\* line 139: not input_str or input_str.lower() in ["q", "quit", "exit"]
IsQuitCaseSensitive(input_str) == input_str = <<>> \/ input_str \in QuitWords
IsQuit(input_str) == input_str = <<>> \/ Lower(input_str) \in QuitWords

----------------------------------------------------------------------------
(* The state machine *)

NoLast == [src |-> <<>>, exc |-> "none", stage |-> "none", out |-> NoOutput,
           size |-> <<0, 0>>, ok |-> FALSE]

NoProbe == [fn |-> "none"]

\* the locals of process_images before it is called and after it returned
LocalsCleared ==
    /\ path_strings' = <<>>
    /\ idx' = 0
    /\ target_files' = <<>>
    /\ ignored' = <<>>
    /\ pos' = 0
    /\ success_count' = 0
    /\ summary' = <<0, 0>>
    /\ last' = NoLast
    /\ attempted' = <<>>
    /\ written' = 0
    /\ outputs' = <<>>

\* process_images is entered with the given path strings (lines 38-54)
EnterBatch(strings) ==
    /\ path_strings' = strings
    /\ idx' = 1
    /\ target_files' = <<>>
    /\ ignored' = <<>>
    /\ pos' = 0
    /\ success_count' = 0
    /\ summary' = <<0, 0>>
    /\ last' = NoLast
    /\ attempted' = <<>>
    /\ written' = 0
    /\ outputs' = <<>>
    /\ pc' = "collect"

\* lines 123-133: one-shot mode when there are inputs, else the prompt
Main ==
    /\ pc = "main"
    /\ IF inputs # <<>>
       THEN /\ EnterBatch(inputs)
            /\ UNCHANGED <<report, line>>
       ELSE /\ pc' = "prompt"
            /\ UNCHANGED <<path_strings, idx, target_files, ignored, pos, success_count,
                           summary, last, attempted, written, outputs, report, line>>
    /\ UNCHANGED <<fs, max_width, mode_type, inputs, batches, faults, prev_fs, probe>>

\* lines 137-148: one line is read at the prompt
ReadLine(lines) ==
    /\ pc = "prompt"
    /\ batches < MaxBatches
    /\ \E l \in lines :
       \E input_str \in {Strip(l, {" "})} :
         \E split \in {ShlexSplit(input_str)} :
             /\ batches' = batches + 1
             /\ IF IsQuit(input_str)
                THEN /\ pc' = "exit"
                     /\ report' = "bye"
                     /\ line' = l
                     /\ UNCHANGED <<path_strings, idx, target_files, ignored, pos,
                                    success_count, summary, last, attempted, written,
                                    outputs>>
                ELSE IF ~split.ok
                THEN /\ pc' = "except"
                     /\ report' = "parse_failed"
                     /\ line' = l
                     /\ UNCHANGED <<path_strings, idx, target_files, ignored, pos,
                                    success_count, summary, last, attempted, written,
                                    outputs>>
                ELSE /\ EnterBatch(split.tokens)
                     /\ report' = "none"
                     /\ line' = l
    /\ UNCHANGED <<fs, max_width, mode_type, inputs, faults, prev_fs, probe>>

\* lines 147-148: the ValueError of shlex.split is handled, the loop goes on
ParseFailed ==
    /\ pc = "except"
    /\ pc' = "prompt"
    /\ line' = <<>>
    /\ UNCHANGED <<fs, max_width, mode_type, path_strings, idx, target_files,
                   ignored, pos, success_count, summary, report, inputs, batches,
                   faults, prev_fs, last, attempted, written, outputs, probe>>

\* lines 135-151: KeyboardInterrupt anywhere in the interactive loop, at the
\* prompt or during a batch, ends the session
Interrupt ==
    /\ pc \in {"prompt", "except", "collect", "convert", "returned"}
    /\ inputs = <<>>
    /\ pc' = "exit"
    /\ report' = "interrupt"
    /\ UNCHANGED <<fs, max_width, mode_type, line, path_strings, idx, target_files,
                   ignored, pos, success_count, summary, inputs, batches, faults,
                   prev_fs, last, attempted, written, outputs, probe>>

\* lines 55-70: one iteration of the collection loop
CollectStep ==
    /\ pc = "collect"
    /\ idx <= Len(path_strings)
    /\ \E got \in {CollectOne(fs, path_strings[idx])} :
           /\ target_files' = target_files \o got.files
           /\ ignored' = ignored \o got.diag
    /\ idx' = idx + 1
    /\ UNCHANGED <<fs, max_width, mode_type, pc, line, path_strings, pos, success_count,
                   summary, report, inputs, batches, faults, prev_fs, last, attempted,
                   written, outputs, probe>>

\* lines 72-79: after the collection loop
CollectDone ==
    /\ pc = "collect"
    /\ idx > Len(path_strings)
    /\ IF target_files = <<>>
       THEN /\ pc' = "returned"
            /\ report' = "no_images"
            /\ pos' = pos
       ELSE /\ pc' = "convert"
            /\ report' = report
            /\ pos' = 1
    /\ UNCHANGED <<fs, max_width, mode_type, line, path_strings, idx, target_files,
                   ignored, success_count, summary, inputs, batches, faults, prev_fs,
                   last, attempted, written, outputs, probe>>

\* lines 80-113: one iteration of the conversion loop
ConvertStep(allowed) ==
    /\ pc = "convert"
    /\ pos <= Len(target_files)
    /\ \E wr \in allowed :
       \E r \in {ConvertFile(fs, target_files[pos], max_width, mode_type, wr)} :
         LET image_path == target_files[pos]
         IN  /\ wr # "ok" => (faults < MaxFaults /\ r.stage = "save")
             /\ fs' = r.fs
             /\ prev_fs' = fs
             /\ faults' = IF r.stage = "save" THEN faults + 1 ELSE faults
             /\ last' = [src |-> image_path, exc |-> r.exc, stage |-> r.stage,
                         out |-> r.out, size |-> r.size, ok |-> r.exc = "none"]
             /\ attempted' = Append(attempted, image_path)
             /\ written' = IF r.stage = "done" THEN written + 1 ELSE written
             /\ outputs' = IF r.stage = "done" THEN Append(outputs, r.out) ELSE outputs
             /\ success_count' = IF r.exc = "none" THEN success_count + 1
                                 ELSE success_count
             /\ IF r.exc = "none" \/ Caught(r.exc)
                THEN /\ pos' = pos + 1
                     /\ pc' = pc
                ELSE /\ pos' = pos
                     /\ pc' = "crashed"
    /\ UNCHANGED <<max_width, mode_type, line, path_strings, idx, target_files, ignored,
                   summary, report, inputs, batches, probe>>

\* line 115: the summary, and the return of process_images
Summary ==
    /\ pc = "convert"
    /\ pos > Len(target_files)
    /\ summary' = <<success_count, Len(target_files)>>
    /\ report' = "summary"
    /\ pc' = "returned"
    /\ UNCHANGED <<fs, max_width, mode_type, line, path_strings, idx, target_files,
                   ignored, pos, success_count, inputs, batches, faults, prev_fs, last,
                   attempted, written, outputs, probe>>

\* lines 128 and 146: back in main after process_images returned
Return ==
    /\ pc = "returned"
    /\ pc' = IF inputs # <<>> THEN "exit" ELSE "prompt"
    /\ LocalsCleared
    /\ line' = <<>>
    /\ prev_fs' = fs
    /\ UNCHANGED <<fs, max_width, mode_type, report, inputs, batches, faults, probe>>

----------------------------------------------------------------------------
(* Filesystems and inputs the runs start from *)

Root == (<<>> :> DirEntry(<<>>))

RECURSIVE AddAll(_, _)
AddAll(f, es) == IF es = <<>> THEN f ELSE AddAll(AddEntry(f, es[1][1], es[1][2]), Tail(es))

Image(w, h) == FileEntry(TRUE, w, h, "source")
Corrupt == FileEntry(FALSE, 0, 0, "source")
Text == FileEntry(FALSE, 0, 0, "text")

P == << <<"p">> >>
A_png == <<"a", ".", "p", "n", "g">>
A_bmp == <<"a", ".", "b", "m", "p">>
A1_png == <<"a", "_", "1", ".", "p", "n", "g">>
B_PNG == <<"b", ".", "P", "N", "G">>
C_jpg == <<"c", ".", "j", "p", "g">>
W_png == <<"w", ".", "p", "n", "g">>
N_txt == <<"n", ".", "t", "x", "t">>
E_png == <<"e", ".", "p", "n", "g">>
G_png == <<"g", ".", "p", "n", "g">>
X_png == <<"x", ".", "p", "n", "g">>
DotPng == <<".", "p", "n", "g">>
S == <<"s">>
A_jpg == <<"a", ".", "j", "p", "g">>
Jpg == <<"j", "p", "g">>

\* the a/b of a path string
RECURSIVE PathStr(_)
PathStr(p) ==
    IF Len(p) = 1 THEN p[1] ELSE PathStr(SubSeq(p, 1, Len(p) - 1)) \o <<"/">> \o p[Len(p)]

Widths == {1000, 1200}
SessionWidths == {1200}
Modes == {"jpeg", "jpg", "webp"}

\* the source files of directory p, in enumeration order
SourceSets ==
    { << <<Join(P, A_png), Image(2000, 1000)>>, <<Join(P, A_bmp), Image(800, 600)>> >>,
      << <<Join(P, C_jpg), Corrupt>>, <<Join(P, A_png), Image(1062, 1062)>>,
         <<Join(P, W_png), Image(2000, 1)>> >>,
      << <<Join(P, A1_png), Image(1200, 900)>>, <<Join(P, A_png), Image(640, 480)>> >> }

\* what is at p/jpg before the first batch: nothing, a directory holding a.jpg,
\* or a regular file
OutputStates ==
    { <<>>,
      << <<Join(P, Jpg), DirEntry(<<>>)>>,
         <<Join(Join(P, Jpg), A_jpg), Image(300, 200)>> >>,
      << <<Join(P, Jpg), Text>> >> }

Layouts == { AddAll(Root, << <<P, DirEntry(<<>>)>> >> \o src \o out) :
               src \in SourceSets, out \in OutputStates }

\* the lines typed at the prompt in the pipeline runs
PipelineLines ==
    { PathStr(P),
      PathStr(Join(P, A_png)) \o <<" ">> \o PathStr(Join(P, A_png)),
      <<"'">> \o PathStr(Join(P, A_bmp)) \o <<"'", " ">> \o PathStr(Join(P, A_png)),
      PathStr(Join(P, Jpg)),
      <<"'">> \o PathStr(P) }

\* the filesystems of the collection runs: supported and unsupported names,
\* an upper-case extension, a nested directory, a directory named like an image
CollectLayouts ==
    { AddAll(Root, << <<P, DirEntry(<<>>)>>,
                      <<Join(P, A_png), Image(2000, 1000)>>,
                      <<Join(P, N_txt), Text>>,
                      <<Join(P, S), DirEntry(<<>>)>>,
                      <<Join(Join(P, S), E_png), Image(800, 600)>>,
                      <<Join(P, B_PNG), Image(640, 480)>>,
                      <<Join(P, G_png), DirEntry(<<>>)>> >>),
      AddAll(Root, << <<P, DirEntry(<<>>)>>,
                      <<Join(P, DotPng), Image(10, 10)>>,
                      <<Join(P, S), DirEntry(<<>>)>>,
                      <<Join(P, C_jpg), Corrupt>>,
                      <<Join(P, N_txt), Text>>,
                      <<Join(P, A_png), Image(2000, 1000)>>,
                      <<Join(Join(P, S), N_txt), Text>> >>) }

\* the path strings of the collection runs
RawInputs ==
    { PathStr(P),
      <<"\"">> \o PathStr(Join(P, A_png)) \o <<"\"">>,
      <<"'">> \o PathStr(Join(P, N_txt)) \o <<"'">>,
      PathStr(Join(P, S)),
      PathStr(Join(P, X_png)),
      PathStr(Join(P, B_PNG)),
      <<"\"", "\"">>,
      PathStr(Join(Join(P, S), E_png)) }

RECURSIVE SeqsUpTo(_, _)
SeqsUpTo(base, n) ==
    IF n = 0 THEN {<<>>}
    ELSE LET shorter == SeqsUpTo(base, n - 1)
         IN  shorter \cup {Append(q, x) : q \in shorter, x \in base}

InputLists == SeqsUpTo(RawInputs, MaxInputs) \ {<<>>}

\* the pieces the lines of the session runs are made of
LineAtoms ==
    { <<" ">>, <<"'">>, <<"\"">>, <<"\\">>, <<"q">>, <<"E", "x", "i", "t">>,
      PathStr(Join(P, A_png)) }

RECURSIVE Concat(_)
Concat(ss) == IF ss = <<>> THEN <<>> ELSE Head(ss) \o Concat(Tail(ss))

SessionLines == {Concat(q) : q \in SeqsUpTo(LineAtoms, MaxLineLen)}

SessionLayouts ==
    { AddAll(Root, << <<P, DirEntry(<<>>)>>, <<Join(P, A_png), Image(2000, 1000)>> >>) }

----------------------------------------------------------------------------
(* Specifications *)

Start(f, mw, mode, args) ==
    /\ fs = f
    /\ max_width = mw
    /\ mode_type = mode
    /\ inputs = args
    /\ pc = "main"
    /\ line = <<>>
    /\ path_strings = <<>>
    /\ idx = 0
    /\ target_files = <<>>
    /\ ignored = <<>>
    /\ pos = 0
    /\ success_count = 0
    /\ summary = <<0, 0>>
    /\ report = "none"
    /\ batches = 0
    /\ faults = 0
    /\ prev_fs = f
    /\ last = NoLast
    /\ attempted = <<>>
    /\ written = 0
    /\ outputs = <<>>

\* the interactive session over the pipeline filesystems
Init ==
    \E f \in Layouts, mw \in Widths, mode \in Modes :
        Start(f, mw, mode, <<>>) /\ probe = NoProbe

Next ==
    \/ Main
    \/ ReadLine(PipelineLines)
    \/ ParseFailed
    \/ Interrupt
    \/ CollectStep
    \/ CollectDone
    \/ ConvertStep(WriteOutcomes)
    \/ Summary
    \/ Return

Spec == Init /\ [][Next]_vars

\* one-shot runs: the collection of every list of path strings
InitCollect ==
    \E f \in CollectLayouts, mw \in Widths, mode \in Modes, args \in InputLists :
        Start(f, mw, mode, args) /\ probe = NoProbe

NextCollect ==
    \/ Main
    \/ CollectStep
    \/ CollectDone
    \/ ConvertStep({"ok"})
    \/ Summary
    \/ Return

SpecCollect == InitCollect /\ [][NextCollect]_vars

\* the interactive session over every line made of the line atoms
InitSession ==
    \E f \in SessionLayouts, mw \in SessionWidths, mode \in Modes :
        Start(f, mw, mode, <<>>) /\ probe = NoProbe

NextSession ==
    \/ Main
    \/ ReadLine(SessionLines)
    \/ ParseFailed
    \/ Interrupt
    \/ CollectStep
    \/ CollectDone
    \/ ConvertStep(WriteOutcomes)
    \/ Summary
    \/ Return

SpecSession == InitSession /\ [][NextSession]_vars

\* get_unique_filepath alone, over directories holding a run of numbered names
O == << <<"o">> >>
A_name == <<"a">>
A1_jpg == <<"a", "_", "1", ".", "j", "p", "g">>
DotJpg == <<".", "j", "p", "g">>

NumberedName(filename, k) ==
    Stem(filename) \o <<"_">> \o FormatInt(k) \o Suffix(filename)

ResolveNames == {A_jpg, A_name, A1_jpg, DotJpg}

RECURSIVE AddRun(_, _, _, _)
AddRun(f, filename, from, to) ==
    IF from > to THEN f
    ELSE AddRun(AddEntry(f, Join(O, NumberedName(filename, from)), Image(10, 10)),
                filename, from + 1, to)

RECURSIVE AddNames(_, _)
AddNames(f, names) ==
    IF names = {} THEN f
    ELSE LET n == CHOOSE x \in names : TRUE
         IN  AddNames(IF Exists(f, Join(O, n)) THEN f
                      ELSE AddEntry(f, Join(O, n), Image(10, 10)), names \ {n})

ResolveExtras == {A_jpg, A_name, NumberedName(A_jpg, MaxTaken + 2),
                  NumberedName(A1_jpg, 1)}

ResolveLayouts ==
    { AddNames(AddRun(AddAll(Root, << <<O, DirEntry(<<>>)>> >>), A_jpg, 1, k), extra) :
        k \in 0..MaxTaken, extra \in SUBSET ResolveExtras }

InitResolve ==
    \E f \in ResolveLayouts, n \in ResolveNames :
        /\ Start(f, 1200, "jpeg", <<>>)
        /\ probe = [fn |-> "resolve", directory |-> O, filename |-> n,
                    done |-> FALSE, ret |-> <<>>]

ResolveCall ==
    /\ probe.fn = "resolve"
    /\ ~probe.done
    /\ probe' = [probe EXCEPT !.done = TRUE,
                              !.ret = get_unique_filepath(fs, probe.directory,
                                                          probe.filename)]
    /\ UNCHANGED <<fs, max_width, mode_type, pc, line, path_strings, idx, target_files,
                   ignored, pos, success_count, summary, report, inputs, batches,
                   faults, prev_fs, last, attempted, written, outputs>>

NextResolve == ResolveCall

SpecResolve == InitResolve /\ [][NextResolve]_vars

\* the resize arithmetic alone, over every size and width of a range
Dims == 1..MaxDim \cup {1000, 1062, 2000}

InitResize ==
    \E w \in Dims, h \in Dims, mw \in Dims :
        /\ Start(Root, mw, "jpeg", <<>>)
        /\ probe = [fn |-> "resize", w |-> w, h |-> h, done |-> FALSE,
                    size |-> <<0, 0>>, raised |-> FALSE]

\* lines 90-93
ResizeCall ==
    /\ probe.fn = "resize"
    /\ ~probe.done
    /\ \E size \in {TargetSize(probe.w, probe.h, max_width)} :
         probe' = [probe EXCEPT !.done = TRUE, !.size = size,
                                !.raised = probe.w > max_width /\ ResizeRaises(size)]
    /\ UNCHANGED <<fs, max_width, mode_type, pc, line, path_strings, idx, target_files,
                   ignored, pos, success_count, summary, report, inputs, batches,
                   faults, prev_fs, last, attempted, written, outputs>>

NextResize == ResizeCall

SpecResize == InitResize /\ [][NextResize]_vars

----------------------------------------------------------------------------
(* Properties *)

\* C1: get_unique_filepath returns directory/filename when that path does not
\* exist; otherwise directory/{stem}_{k}{suffix} for the least k >= 1 whose path
\* does not exist (so the paths numbered 1..k-1 all exist); the path returned
\* never exists.
C1_UniqueFilepath ==
    (probe.fn = "resolve" /\ probe.done) =>
        LET d == probe.directory
            n == probe.filename
        IN  /\ ~Exists(fs, probe.ret)
            /\ IF ~Exists(fs, Join(d, n)) THEN probe.ret = Join(d, n)
               ELSE \E k \in 1..(MaxTaken + 3) :
                      /\ probe.ret = Join(d, NumberedName(n, k))
                      /\ \A m \in 1..(k - 1) : Exists(fs, Join(d, NumberedName(n, m)))

\* a.jpg and a_1.jpg are present and a_2.jpg is returned
C1_Witness ==
    /\ probe.fn = "resolve" /\ probe.done
    /\ probe.filename = A_jpg
    /\ Exists(fs, Join(O, A_jpg))
    /\ Exists(fs, Join(O, A1_jpg))
    /\ probe.ret = Join(O, <<"a", "_", "2", ".", "j", "p", "g">>)

\* the regular files of a filesystem, and their contents
Files(f) == {q \in DOMAIN f : f[q].kind = "file"}

\* C2: every completed write goes to a path that did not exist immediately
\* before it; no file that existed is changed or removed by the attempt of a
\* file; the paths written in one batch are pairwise distinct.
C2_NeverOverwrites ==
    /\ (last.stage = "done") => ~Exists(prev_fs, last.out)
    /\ \A q \in Files(prev_fs) : q \in DOMAIN fs /\ fs[q] = prev_fs[q]
    /\ \A m, n \in 1..Len(outputs) : m # n => outputs[m] # outputs[n]

\* two sources with the same parent and stem were both written in one batch
C2_Witness ==
    /\ last.stage = "done"
    /\ Len(attempted) >= 2 /\ Len(outputs) = Len(attempted)
    /\ \E m, n \in 1..Len(attempted) :
         /\ m < n
         /\ Parent(attempted[m]) = Parent(attempted[n])
         /\ Stem(Name(attempted[m])) = Stem(Name(attempted[n]))
         /\ outputs[m] # outputs[n]
    /\ batches >= 2

\* C3: whatever files fail, the batch attempts every collected file in
\* collection order, no error of a file leaves the loop, and the summary is
\* (number of completed writes) / (number of collected files).
C3_FailureIsolation ==
    /\ pc # "crashed"
    /\ pc = "convert" => attempted = SubSeq(target_files, 1, pos - 1)
    /\ (pc = "returned" /\ report = "summary") =>
          /\ attempted = target_files
          /\ summary = <<written, Len(target_files)>>

\* a batch of three files ended with one written and the last failed at resize
C3_Witness ==
    /\ pc = "returned" /\ report = "summary"
    /\ summary[1] >= 1 /\ summary[1] < summary[2]
    /\ last.stage = "resize"
    /\ Len(target_files) >= 3

\* the path a path string names
NamedPath(p_str) == ToPath(CleanPath(p_str))

\* a name has an extension outside the supported set
Unsupported(p) == ~Supported(p)

\* the number of regular files with an unsupported extension among paths
RECURSIVE CountUnsupportedFiles(_, _)
CountUnsupportedFiles(f, ps) ==
    IF ps = <<>> THEN 0
    ELSE (IF IsFile(f, Head(ps)) /\ Unsupported(Head(ps)) THEN 1 ELSE 0)
         + CountUnsupportedFiles(f, Tail(ps))

\* the ignore diagnostics the claim expects of one path string
RECURSIVE ExpectedDiagnostics(_, _)
ExpectedDiagnostics(f, strings) ==
    IF strings = <<>> THEN 0
    ELSE LET p == NamedPath(Head(strings))
             here == IF CleanPath(Head(strings)) = <<>> THEN 0
                     ELSE IF IsDir(f, p) THEN CountUnsupportedFiles(f, IterDir(f, p))
                     ELSE IF IsFile(f, p) THEN (IF Unsupported(p) THEN 1 ELSE 0)
                     ELSE 1
         IN  here + ExpectedDiagnostics(f, Tail(strings))

CollectionOver == pc \in {"convert", "returned"} /\ idx > Len(path_strings)

\* C4: every examined path that names a file with an unsupported extension, or
\* that does not exist, produces an ignore diagnostic; a directory with M files
\* of unsupported extension produces M diagnostics.
C4_IgnoreDiagnostics ==
    (CollectionOver /\ pos <= 1) =>
        Len(ignored) = ExpectedDiagnostics(fs, path_strings)

\* the extension of a name is a supported one in any letter case
SupportedAnyCase(name) ==
    \E e \in IMAGE_EXTENSIONS :
        /\ Suffix(name) # <<>>
        /\ Len(Suffix(name)) = Len(e)
        /\ \A k \in 1..Len(e) :
              \/ Suffix(name)[k] = e[k]
              \/ (e[k] \in DOMAIN Upper /\ Suffix(name)[k] = Upper[e[k]])

\* what the claim expects one path string to contribute
ExpectedOf(f, p_str) ==
    LET p == NamedPath(p_str)
    IN  IF CleanPath(p_str) = <<>> \/ ~Exists(f, p) THEN <<>>
        ELSE IF f[p].kind = "file"
             THEN (IF SupportedAnyCase(Name(p)) THEN <<p>> ELSE <<>>)
        ELSE LET kids == f[p].list
                 keep == {k \in 1..Len(kids) :
                            /\ f[Join(p, kids[k])].kind = "file"
                            /\ SupportedAnyCase(kids[k])}
                 Pick[k \in 0..Len(kids)] ==
                     IF k = 0 THEN <<>>
                     ELSE IF k \in keep THEN Append(Pick[k - 1], Join(p, kids[k]))
                     ELSE Pick[k - 1]
             IN  Pick[Len(kids)]

RECURSIVE ExpectedCollected(_, _)
ExpectedCollected(f, strings) ==
    IF strings = <<>> THEN <<>>
    ELSE ExpectedOf(f, Head(strings)) \o ExpectedCollected(f, Tail(strings))

\* C5: the collected list is, in input order, each input that is a regular file
\* with a supported extension (in any letter case), once per occurrence, and for
\* each input that is a directory its immediate regular-file children with a
\* supported extension, in enumeration order; nothing else.
C5_CollectedExactly ==
    /\ pc = "collect" =>
         target_files = ExpectedCollected(fs, SubSeq(path_strings, 1, idx - 1))
    /\ (CollectionOver /\ pos <= 1) =>
         target_files = ExpectedCollected(fs, path_strings)

\* a quoted file, then its directory, which holds an upper-case extension and
\* a nested image, were collected
C5_Witness ==
    /\ CollectionOver /\ pos <= 1
    /\ Len(path_strings) = 2
    /\ NamedPath(path_strings[2]) = P
    /\ Exists(fs, Join(Join(P, S), E_png))
    /\ target_files = <<Join(P, A_png), Join(P, A_png), Join(P, B_PNG)>>

ResizeDone == probe.fn = "resize" /\ probe.done

\* C6: for width w, height h and maximum width mw the size is
\* (mw, floor(mw * h / w)) when w > mw, and (w, h) when w <= mw.
C6_ResizeExact ==
    ResizeDone =>
        probe.size = IF probe.w > max_width
                     THEN <<max_width, (max_width * probe.h) \div probe.w>>
                     ELSE <<probe.w, probe.h>>

\* C10: for width, height and maximum width all at least 1, the size handed on
\* has width and height at least 1 and the resize does not fail.
C10_NoZeroHeight ==
    ResizeDone => (probe.size[1] >= 1 /\ probe.size[2] >= 1 /\ ~probe.raised)

\* the output directory of a source file
OutputDirOf(src) ==
    Join(Parent(src), IF mode_type = "webp" THEN <<"w", "e", "b", "p">>
                      ELSE <<"j", "p", "g">>)

Failed == last.stage \in {"mkdir", "decode", "resize", "save"}

\* C7 as stated: after a file counted as a failure the filesystem is as it was
\* before the file was attempted.
C7_FailureLeavesNothing == Failed => fs = prev_fs

\* C7 amended: a file that fails at the creation of the output directory, at
\* decode or at resize leaves every regular file as it was and adds no file; the
\* one change it can leave is the new, empty output directory.
C7_FailureBeforeWrite ==
    (last.stage \in {"mkdir", "decode", "resize"}) =>
        /\ Files(fs) = Files(prev_fs)
        /\ \A q \in Files(prev_fs) : fs[q] = prev_fs[q]
        /\ \A q \in DOMAIN prev_fs : q \in DOMAIN fs /\ fs[q].kind = prev_fs[q].kind
        /\ (DOMAIN fs \ DOMAIN prev_fs) \subseteq {OutputDirOf(last.src)}
        /\ \A q \in DOMAIN fs \ DOMAIN prev_fs : fs[q] = DirEntry(<<>>)

\* an undecodable file failed after its output directory was created
C7_Witness ==
    /\ last.stage = "decode"
    /\ ~Exists(prev_fs, OutputDirOf(last.src))
    /\ IsDir(fs, OutputDirOf(last.src))

\* C8: every output written for a source file lies directly in the directory
\* "webp" (type webp) or "jpg" (types jpeg and jpg) of the parent of the source,
\* has the extension .webp or .jpg, and the stem of the source, optionally
\* followed by _<counter>; nothing else is written anywhere.
C8_OutputLocation ==
    /\ (last.stage = "done") =>
         LET out == Name(last.out)
             stem == Stem(Name(last.src))
         IN  /\ Parent(last.out) = OutputDirOf(last.src)
             /\ Suffix(out) = (IF mode_type = "webp" THEN <<".", "w", "e", "b", "p">>
                               ELSE <<".", "j", "p", "g">>)
             /\ \/ Stem(out) = stem
                \/ /\ Len(Stem(out)) > Len(stem) + 1
                   /\ SubSeq(Stem(out), 1, Len(stem) + 1) = stem \o <<"_">>
                   /\ IsDigit(SubSeq(Stem(out), Len(stem) + 2, Len(Stem(out))))
    /\ (last.stage # "none") =>
         (DOMAIN fs \ DOMAIN prev_fs) \subseteq
             {OutputDirOf(last.src)} \cup (IF last.out = NoOutput THEN {} ELSE {last.out})

\* an output with a counter was written under type jpg, in p/jpg
C8_Witness ==
    /\ last.stage = "done"
    /\ mode_type = "jpg"
    /\ Stem(Name(last.out)) # Stem(Name(last.src))
    /\ Len(last.out) = 3

\* a line that ends the loop: blank, or q, quit or exit in any letter case,
\* with spaces around
QuitLine(l) ==
    LET ink == {k \in 1..Len(l) : l[k] # " "}
    IN  \/ ink = {}
        \/ LET lo == CHOOSE k \in ink : \A m \in ink : k <= m
               hi == CHOOSE k \in ink : \A m \in ink : k >= m
               word == SubSeq(l, lo, hi)
           IN  \E q \in QuitWords :
                 /\ Len(word) = Len(q)
                 /\ \A k \in 1..Len(q) : word[k] = q[k] \/ word[k] = Upper[q[k]]

====
